---- MODULE Spec2Model ----
(***************************************************************************)
(* Editor tree of the vector editor: GXElementEditor (elementeditor.js).   *)
(* The scene graph is an external collaborator; it is a fixed document     *)
(* tree here, elements numbered in document (pre-) order.                  *)
(***************************************************************************)
EXTENDS Integers, Sequences, FiniteSets, TLC

VARIABLES
    node,       \* the editor instances: cell -> the instance's fields
    slot,       \* element.__editor__ of every scene element (0 is none)
    attached,   \* the elements that are part of the live scene
    view,       \* a hit test's inputs: location, view transform, acceptor
    last,       \* the host's last call and what it observed of it
    prev        \* the call before the last one (where calls are paired)

vars == <<node, slot, attached, view, last, prev>>

(***************************************************************************)
(* Bounds                                                                  *)
(***************************************************************************)
\* editor instances of one element that exist (are still referenced) at one
\* time, beyond the first
MaxGen == 1

(***************************************************************************)
(* The scene (GXElement contract: getParent, getNext, isAttached, type id) *)
(*   1 R                                                                   *)
(*   +- 2 A                                                                *)
(*   |  +- 3 A1                                                            *)
(*   +- 4 G        (kind without a registered editor)                      *)
(*   |  +- 5 X                                                             *)
(*   +- 6 B                                                                *)
(*      +- 7 B1                                                            *)
(*   8 D           (an element that is not attached to the scene)          *)
(***************************************************************************)
ParentOf == <<0, 1, 2, 1, 4, 1, 6, 0>>

Elements == DOMAIN ParentOf

\* element.isAttached()
isAttached(h, element) == element \in h.attached

\* element.getParent(); 0 is null
getParent(element) == ParentOf[element]

\* element.getNext(): the next sibling in document order; 0 is null
getNext(element) ==
    LET later == {e \in Elements : e > element /\ ParentOf[e] = ParentOf[element]
                                    /\ ParentOf[element] # 0}
    IN IF later = {} THEN 0 ELSE CHOOSE e \in later : \A f \in later : e <= f

\* GXElementEditor._Editors: the kinds GXElementEditor.exports registered
Registered == Elements \ {4}

(***************************************************************************)
(* Values                                                                  *)
(***************************************************************************)
\* a JavaScript array reference that may be null
NullArray == [isNull |-> TRUE, items |-> <<>>]

Array(s) == [isNull |-> FALSE, items |-> s]

\* Array.prototype.indexOf, 0-based, -1 when absent
indexOf(s, x) ==
    IF \E i \in 1..Len(s) : s[i] = x
    THEN (CHOOSE i \in 1..Len(s) : s[i] = x /\ \A j \in 1..(i - 1) : s[j] # x) - 1
    ELSE -1

\* Array.prototype.splice(index, 0, x), index 0-based
spliceIn(s, index, x) == SubSeq(s, 1, index) \o <<x>> \o SubSeq(s, index + 1, Len(s))

\* Array.prototype.splice(index, 1), index 0-based
spliceOut(s, index) == SubSeq(s, 1, index) \o SubSeq(s, index + 2, Len(s))

\* a GTransform reference that may be null; a transform is a translation
NullTransform == [isNull |-> TRUE, tx |-> 0]

Translation(tx) == [isNull |-> FALSE, tx |-> tx]

\* new GXElementEditor(element): the prototype's field defaults
NewEditor(element) ==
    [element |-> element, flags |-> 0, transform |-> NullTransform, parentEditor |-> 0,
     editors |-> NullArray, partSelection |-> NullArray]

\* The heap an operation works on: the editor instances, the elements'
\* __editor__ slots, the error thrown (if any), the value returned and the
\* lifecycle hooks fired so far.
Heap(n, s, a) ==
    [node |-> n, slot |-> s, attached |-> a, err |-> "", ret |-> 0, events |-> <<>>,
     created |-> {}, full |-> FALSE, result |-> ""]

\* what the callee of a hook, of an invalidation request or of an element's
\* transform sees at the moment it is called: the editor's fields and the
\* elements' slots (target and arg are the arguments of element.transform)
Observed(h, editor) ==
    [flags |-> h.node[editor].flags, transform |-> h.node[editor].transform,
     editors |-> h.node[editor].editors, partSelection |-> h.node[editor].partSelection,
     slot |-> h.slot, target |-> 0, arg |-> NullTransform]

\* what a hook or an invalidation request leaves in the host's record
Event(kind, editor, h) == <<kind, editor, Observed(h, editor)>>

Throw(h, msg) == [h EXCEPT !.err = msg, !.ret = 0]

\* GXElementEditor.getEditor
getEditor(h, element) == h.slot[element]

\* A heap cell holding no instance (element 0 marks it)
Free == NewEditor(0)

\* The cells instances of an element are allocated in: one per generation
Cell(element, gen) == element + gen * Len(ParentOf)

Cells == {Cell(e, g) : e \in Elements, g \in 0..MaxGen}

\* the operator new: the first cell of the element that holds no instance
\* (0 when the bound on coexisting instances is exhausted)
alloc(h, element) ==
    LET free == {g \in 0..MaxGen : h.node[Cell(element, g)] = Free}
    IN IF free = {} THEN 0
       ELSE Cell(element, CHOOSE g \in free : \A k \in free : g <= k)

\* GXElementEditor.createEditor: a new instance, or null (0) for a kind that
\* is not registered; the instance is h.ret
createEditor(h, element) ==
    IF element \in Registered
    THEN LET editor == alloc(h, element)
         IN IF editor = 0 THEN [h EXCEPT !.err = "out of cells", !.full = TRUE]
            ELSE [h EXCEPT !.node[editor] = NewEditor(element),
                           !.created = @ \cup {editor},
                           !.ret = editor]
    ELSE [h EXCEPT !.ret = 0]

\* insertEditor that ignores the reference editor and always appends
insertEditor_append(h, this, editor, referenceEditor) ==
    IF h.node[editor].parentEditor # 0
    THEN Throw(h, "Editor already appended.")
    ELSE [h EXCEPT !.node[this].editors = Array(Append(@.items, editor)),
                   !.node[editor].parentEditor = this]

\* insertEditor that accepts an editor that has a parent
insertEditor_adopt(h, this, editor, referenceEditor) ==
    LET eds == h.node[this].editors
    IN IF referenceEditor # 0 /\ eds.isNull
       THEN Throw(h, "TypeError")
       ELSE IF referenceEditor # 0 /\ indexOf(eds.items, referenceEditor) < 0
       THEN Throw(h, "Unknown reference editor.")
       ELSE [h EXCEPT !.node[this].editors =
                          Array(spliceIn(eds.items,
                                         IF referenceEditor # 0
                                         THEN indexOf(eds.items, referenceEditor)
                                         ELSE Len(eds.items), editor)),
                      !.node[editor].parentEditor = this]

\* insertEditor that lists the editor and leaves its parent reference alone
insertEditor_noParentRef(h, this, editor, referenceEditor) ==
    LET eds == h.node[this].editors
    IN IF referenceEditor # 0 /\ eds.isNull
       THEN Throw(h, "TypeError")
       ELSE IF referenceEditor # 0 /\ indexOf(eds.items, referenceEditor) < 0
       THEN Throw(h, "Unknown reference editor.")
       ELSE IF h.node[editor].parentEditor # 0
       THEN Throw(h, "Editor already appended.")
       ELSE [h EXCEPT !.node[this].editors =
                          Array(spliceIn(eds.items,
                                         IF referenceEditor # 0
                                         THEN indexOf(eds.items, referenceEditor)
                                         ELSE Len(eds.items), editor))]

\* GXElementEditor.prototype.insertEditor
insertEditor(h, this, editor, referenceEditor) ==
    LET eds == h.node[this].editors
    IN IF referenceEditor # 0 /\ eds.isNull
       THEN Throw(h, "TypeError")
       ELSE IF referenceEditor # 0 /\ indexOf(eds.items, referenceEditor) < 0
       THEN Throw(h, "Unknown reference editor.")
       ELSE IF h.node[editor].parentEditor # 0
       THEN Throw(h, "Editor already appended.")
       ELSE LET index == IF referenceEditor # 0
                         THEN indexOf(eds.items, referenceEditor)
                         ELSE Len(eds.items)
                new == IF index >= Len(eds.items)
                       THEN Append(eds.items, editor)
                       ELSE spliceIn(eds.items, index, editor)
            IN [h EXCEPT !.node[this].editors = Array(new),
                         !.node[editor].parentEditor = this]

\* removeEditor that leaves the removed editor's parent reference set
removeEditor_keepParent(h, this, editor) ==
    LET eds == h.node[this].editors
    IN IF eds.isNull \/ indexOf(eds.items, editor) < 0
       THEN Throw(h, "Unknown editor.")
       ELSE [h EXCEPT !.node[this].editors = Array(spliceOut(eds.items, indexOf(eds.items, editor)))]

\* GXElementEditor.prototype.removeEditor
removeEditor(h, this, editor) ==
    LET eds == h.node[this].editors
    IN IF eds.isNull
       THEN Throw(h, "TypeError")
       ELSE IF indexOf(eds.items, editor) < 0
       THEN Throw(h, "Unknown editor.")
       ELSE [h EXCEPT !.node[this].editors = Array(spliceOut(eds.items, indexOf(eds.items, editor))),
                      !.node[editor].parentEditor = 0]

RECURSIVE nextEditor(_, _)
\* openEditor, the inner loop: the editor of the first later sibling that has one
nextEditor(h, nextNode) ==
    IF nextNode = 0 THEN 0
    ELSE IF getEditor(h, nextNode) # 0 THEN getEditor(h, nextNode)
    ELSE nextEditor(h, getNext(nextNode))

RECURSIVE openEditor(_, _)
RECURSIVE linkToParent(_, _, _, _)
\* openEditor, the outer loop: walk up from parentNode to the first ancestor
\* that has or gets an editor and insert the new editor there
linkToParent(h, element, editor, parentNode) ==
    IF parentNode = 0 THEN h
    ELSE LET h1 == IF getEditor(h, parentNode) # 0
                   THEN [h EXCEPT !.ret = getEditor(h, parentNode)]
                   ELSE openEditor(h, parentNode)
             parentEditor == h1.ret
         IN IF h1.err # "" THEN h1
            ELSE IF parentEditor # 0
            THEN insertEditor(h1, parentEditor, editor, nextEditor(h1, getNext(element)))
            ELSE linkToParent(h1, element, editor, getParent(parentNode))

\* openEditor without the early return for an element that has an editor
openEditor_noReturn(h, element) ==
    IF ~isAttached(h, element)
    THEN Throw(h, "Node is not attached to create an editor for.")
    ELSE LET h1 == createEditor(h, element)
             editor == h1.ret
         IN IF editor = 0 \/ h1.err # "" THEN h1
            ELSE LET h2 == linkToParent(h1, element, editor, getParent(element))
                 IN IF h2.err # "" THEN h2
                    ELSE [h2 EXCEPT !.events = Append(@, Event("attach", editor, h2)),
                                    !.slot[element] = editor,
                                    !.ret = editor]

\* openEditor that returns an existing editor before it looks at the scene
openEditor_cachedFirst(h, element) ==
    IF getEditor(h, element) # 0
    THEN [h EXCEPT !.ret = getEditor(h, element)]
    ELSE openEditor_noReturn(h, element)

\* openEditor that opens the parent's editor before it asks the registry
openEditor_ancestorsFirst(h, element) ==
    IF ~isAttached(h, element)
    THEN Throw(h, "Node is not attached to create an editor for.")
    ELSE IF getEditor(h, element) # 0
    THEN [h EXCEPT !.ret = getEditor(h, element)]
    ELSE LET h0 == IF getParent(element) # 0 THEN openEditor(h, getParent(element)) ELSE h
             h1 == createEditor(h0, element)
             editor == h1.ret
         IN IF editor = 0 \/ h1.err # "" THEN h1
            ELSE LET h2 == linkToParent(h1, element, editor, getParent(element))
                 IN IF h2.err # "" THEN h2
                    ELSE [h2 EXCEPT !.events = Append(@, Event("attach", editor, h2)),
                                    !.slot[element] = editor,
                                    !.ret = editor]

\* GXElementEditor.openEditor
openEditor(h, element) ==
    IF ~isAttached(h, element)
    THEN Throw(h, "Node is not attached to create an editor for.")
    ELSE IF getEditor(h, element) # 0
    THEN [h EXCEPT !.ret = getEditor(h, element)]
    ELSE LET h1 == createEditor(h, element)
             editor == h1.ret
         IN IF editor = 0 \/ h1.err # "" THEN h1
            ELSE LET h2 == linkToParent(h1, element, editor, getParent(element))
                 IN IF h2.err # "" THEN h2
                    ELSE [h2 EXCEPT !.events = Append(@, Event("attach", editor, h2)),
                                    !.slot[element] = editor,
                                    !.ret = editor]

RECURSIVE closeEditor(_, _)
RECURSIVE closeChildren(_, _, _)
\* closeEditor, the loop over elementEditor.getEditors(): i is the loop index,
\* the array is the parent's own (live) children array
closeChildren(h, elementEditor, i) ==
    LET editors == h.node[elementEditor].editors
    IN IF editors.isNull \/ i >= Len(editors.items) THEN h
       ELSE LET h1 == closeEditor(h, h.node[editors.items[i + 1]].element)
            IN IF h1.err # "" THEN h1
               ELSE closeChildren(h1, elementEditor, i + 1)

\* closeEditor that closes editors of kinds that are not registered as well
closeEditor_anyKind(h, element) ==
    LET elementEditor == getEditor(h, element)
    IN IF elementEditor = 0 THEN h
       ELSE LET h1 == closeChildren(h, elementEditor, 0)
                parent == h1.node[elementEditor].parentEditor
                h2 == IF h1.err = "" /\ parent # 0
                      THEN removeEditor(h1, parent, elementEditor)
                      ELSE h1
            IN IF h2.err # "" THEN h2
               ELSE [h2 EXCEPT !.events = Append(@, Event("detach", elementEditor, h2)),
                               !.slot[element] = 0]

\* GXElementEditor.closeEditor
closeEditor(h, element) ==
    LET elementEditor == getEditor(h, element)
    IN IF elementEditor = 0 THEN h
       ELSE IF element \notin Registered THEN h
       ELSE LET h1 == closeChildren(h, elementEditor, 0)
                parent == h1.node[elementEditor].parentEditor
                h2 == IF h1.err = "" /\ parent # 0
                      THEN removeEditor(h1, parent, elementEditor)
                      ELSE h1
            IN IF h2.err # "" THEN h2
               ELSE [h2 EXCEPT !.events = Append(@, Event("detach", elementEditor, h2)),
                               !.slot[element] = 0]

(***************************************************************************)
(* Flags                                                                   *)
(***************************************************************************)
\* GXElementEditor.Flag.Selected, 1 << 0
Selected == 1

\* GXElementEditor.Flag.Highlighted, 1 << 1
Highlighted == 2

\* GXElementEditor.Flag.Outline, 1 << 4
Outline == 16

RECURSIVE bitAnd(_, _)
\* a & b
bitAnd(a, b) ==
    IF a = 0 \/ b = 0 THEN 0
    ELSE (a % 2) * (b % 2) + 2 * bitAnd(a \div 2, b \div 2)

\* a | b
bitOr(a, b) == a + b - bitAnd(a, b)

\* GXElementEditor.prototype.requestInvalidation
requestInvalidation(h, this) ==
    [h EXCEPT !.events = Append(@, Event("invalidate", this, h))]

\* GXElementEditor.prototype.hasFlag
hasFlag(h, this, flag) == bitAnd(h.node[this].flags, flag) # 0

\* setFlag that requests its invalidations whether or not the flag is set
setFlag_unconditional(h, this, flag) ==
    LET h1 == requestInvalidation(h, this)
        h2 == [h1 EXCEPT !.node[this].flags = bitOr(@, flag)]
    IN requestInvalidation(h2, this)

\* GXElementEditor.prototype.setFlag
setFlag(h, this, flag) ==
    IF bitAnd(h.node[this].flags, flag) = 0
    THEN LET h1 == requestInvalidation(h, this)
             h2 == [h1 EXCEPT !.node[this].flags = bitOr(@, flag)]
         IN requestInvalidation(h2, this)
    ELSE h

\* removeFlag that drops the part selection with the flag
removeFlag_dropSelection(h, this, flag) ==
    IF bitAnd(h.node[this].flags, flag) # 0
    THEN LET h1 == requestInvalidation(h, this)
             h2 == [h1 EXCEPT !.node[this].flags = @ - bitAnd(@, flag),
                              !.node[this].partSelection = NullArray]
         IN requestInvalidation(h2, this)
    ELSE h

\* GXElementEditor.prototype.removeFlag
removeFlag(h, this, flag) ==
    IF bitAnd(h.node[this].flags, flag) # 0
    THEN LET h1 == requestInvalidation(h, this)
             h2 == [h1 EXCEPT !.node[this].flags = @ - bitAnd(@, flag)]
         IN requestInvalidation(h2, this)
    ELSE h

(***************************************************************************)
(* Transform staging                                                       *)
(***************************************************************************)
\* GTransform.equals on two references that may be null
transformEquals(left, right) == left = right

\* GTransform.prototype.isIdentity
isIdentity(matrix) == matrix.tx = 0

\* element.transform(transform) of the scene element the transform is
\* applied to: the element's callee sees the editor and its arguments
elementTransform(h, this, element, matrix) ==
    [h EXCEPT !.events = Append(@, <<"apply", this,
                  [Observed(h, this) EXCEPT !.target = element, !.arg = matrix]>>)]

\* transform that stages the new transform without comparing it
transform_noCompare(h, this, newTransform) ==
    LET h1 == IF ~hasFlag(h, this, Outline)
              THEN setFlag(h, this, Outline)
              ELSE requestInvalidation(h, this)
        h2 == [h1 EXCEPT !.node[this].transform = newTransform]
    IN requestInvalidation(h2, this)

\* GXElementEditor.prototype.transform
transform(h, this, newTransform) ==
    IF ~transformEquals(h.node[this].transform, newTransform)
    THEN LET h1 == IF ~hasFlag(h, this, Outline)
                   THEN setFlag(h, this, Outline)
                   ELSE requestInvalidation(h, this)
             h2 == [h1 EXCEPT !.node[this].transform = newTransform]
         IN requestInvalidation(h2, this)
    ELSE h

\* resetTransform that requests its first invalidation whatever is staged
resetTransform_alwaysInvalidate(h, this) ==
    LET h1 == requestInvalidation(h, this)
        h2 == [h1 EXCEPT !.node[this].transform = NullTransform]
    IN removeFlag(h2, this, Outline)

\* GXElementEditor.prototype.resetTransform
resetTransform(h, this) ==
    LET staged == h.node[this].transform
        h1 == IF ~staged.isNull /\ ~isIdentity(staged)
              THEN requestInvalidation(h, this)
              ELSE h
        h2 == [h1 EXCEPT !.node[this].transform = NullTransform]
    IN removeFlag(h2, this, Outline)

\* applyTransform that hands every staged transform to the element
applyTransform_always(h, this, element) ==
    IF h.node[this].transform.isNull
    THEN Throw(h, "TypeError")
    ELSE resetTransform(elementTransform(h, this, element, h.node[this].transform), this)

\* GXElementEditor.prototype.applyTransform; isIdentity of a null staged
\* transform is a TypeError
applyTransform(h, this, element) ==
    IF h.node[this].transform.isNull
    THEN Throw(h, "TypeError")
    ELSE LET h1 == IF ~isIdentity(h.node[this].transform)
                   THEN elementTransform(h, this, element, h.node[this].transform)
                   ELSE h
         IN resetTransform(h1, this)

(***************************************************************************)
(* Part selection                                                          *)
(***************************************************************************)
\* GXElementEditor.prototype._partIdAreEqual
partIdAreEqual(a, b) == a = b

\* GXElementEditor.prototype._indexOfPartId, 0-based, -1 when absent
indexOfPartId(array, partId) ==
    IF ~array.isNull /\ Len(array.items) > 0
          /\ \E i \in 1..Len(array.items) : partIdAreEqual(array.items[i], partId)
    THEN (CHOOSE i \in 1..Len(array.items) :
              /\ partIdAreEqual(array.items[i], partId)
              /\ \A j \in 1..(i - 1) : ~partIdAreEqual(array.items[j], partId)) - 1
    ELSE -1

\* GXElementEditor.prototype.isPartSelected
isPartSelected(h, this, partId) == indexOfPartId(h.node[this].partSelection, partId) >= 0

\* how often x occurs in a sequence
count(s, x) == Cardinality({i \in 1..Len(s) : s[i] = x})

\* gUtil.equals(left, right, false) on two part selections: equal by value,
\* whatever the order
equals(left, right) ==
    /\ left.isNull = right.isNull
    /\ Len(left.items) = Len(right.items)
    /\ \A i \in 1..Len(left.items) :
           count(left.items, left.items[i]) = count(right.items, left.items[i])

\* GXElementEditor.prototype._updatePartSelection
assignPartSelection(h, this, selection) ==
    LET h1 == requestInvalidation(h, this)
        h2 == [h1 EXCEPT !.node[this].partSelection = selection]
    IN requestInvalidation(h2, this)

\* updatePartSelection, the value of newSelection before it is compared
newSelection(partSelection, toggle, selection) ==
    IF ~toggle \/ partSelection.isNull
    THEN IF ~selection.isNull /\ Len(selection.items) > 0
         THEN Array(selection.items)
         ELSE NullArray
    ELSE IF ~selection.isNull
         THEN LET kept == SelectSeq(partSelection.items,
                                    LAMBDA x : indexOfPartId(selection, x) < 0)
                  added == SelectSeq(selection.items,
                                     LAMBDA x : indexOfPartId(partSelection, x) < 0)
              IN IF Len(kept \o added) = 0 THEN NullArray ELSE Array(kept \o added)
         ELSE NullArray

\* updatePartSelection that assigns the new selection without comparing it
updatePartSelection_always(h, this, toggle, selection) ==
    IF hasFlag(h, this, Selected)
    THEN assignPartSelection(h, this, newSelection(h.node[this].partSelection, toggle, selection))
    ELSE h

\* GXElementEditor.prototype.updatePartSelection
updatePartSelection(h, this, toggle, selection) ==
    IF hasFlag(h, this, Selected)
    THEN LET new == newSelection(h.node[this].partSelection, toggle, selection)
         IN IF ~equals(new, h.node[this].partSelection)
            THEN assignPartSelection(h, this, new)
            ELSE h
    ELSE h

(***************************************************************************)
(* Hit testing. Geometry is one-dimensional: a rectangle is [x, w].        *)
(***************************************************************************)
\* element.getGeometryBBox() of the scene's elements
GeometryBBox ==
    <<[x |-> 1, w |-> 3], [x |-> 1, w |-> 1], [x |-> 1, w |-> 0], [x |-> 0, w |-> 0],
      [x |-> 4, w |-> 0], [x |-> 2, w |-> 1], [x |-> 3, w |-> 0], [x |-> 0, w |-> 0]>>

\* GTransform.mapRect for a translation
mapRect(viewTransform, rect) == [x |-> rect.x + viewTransform, w |-> rect.w]

\* GTransform.multiplied for two translations
multiplied(left, right) == left + right

\* GRect.expanded(1, 1, 1, 1)
expanded(rect) == [x |-> rect.x - 1, w |-> rect.w + 2]

\* GRect.isEmpty
isEmpty(rect) == rect.w <= 0

\* GRect.containsPoint
containsPoint(rect, location) == rect.x <= location /\ location <= rect.x + rect.w

NullRect == [x |-> 0, w |-> -1]

\* GXElementEditor.prototype.getBBox; NullRect is null
getBBox(h, this, viewTransform) ==
    IF hasFlag(h, this, Selected) \/ hasFlag(h, this, Highlighted)
    THEN LET targetTransform == IF ~h.node[this].transform.isNull
                                THEN multiplied(h.node[this].transform.tx, viewTransform)
                                ELSE viewTransform
         IN expanded(mapRect(targetTransform, GeometryBBox[h.node[this].element]))
    ELSE NullRect

\* the kind-specific _getPartInfoAt of the scene's editors: the part is the
\* element's body, the margin around it holds none; the result is the part's
\* editor, 0 is null
getPartInfoAtSelf(h, this, location, viewTransform) ==
    IF containsPoint(mapRect(viewTransform, GeometryBBox[h.node[this].element]), location)
    THEN this
    ELSE 0

\* acceptor.call(null, editor)
acceptorCall(acceptor, h, editor) ==
    IF h.node[editor].element \in acceptor.accepts THEN "true" ELSE acceptor.other

RECURSIVE getPartInfoAt(_, _, _, _, _)
RECURSIVE probeEditors(_, _, _, _, _, _)
\* the loop over the sub editors taken first to last
probeEditors_forward(h, this, i, location, viewTransform, acceptor) ==
    IF i < 0 THEN 0
    ELSE LET editors == h.node[this].editors.items
             result == getPartInfoAt(h, editors[Len(editors) - i], location, viewTransform, acceptor)
         IN IF result # 0 THEN result
            ELSE probeEditors(h, this, i - 1, location, viewTransform, acceptor)

\* getPartInfoAt, the loop over the sub editors from i down to 0
probeEditors(h, this, i, location, viewTransform, acceptor) ==
    IF i < 0 THEN 0
    ELSE LET result == getPartInfoAt(h, h.node[this].editors.items[i + 1],
                                     location, viewTransform, acceptor)
         IN IF result # 0 THEN result
            ELSE probeEditors(h, this, i - 1, location, viewTransform, acceptor)

\* getPartInfoAt that asks the acceptor before it probes the sub editors
getPartInfoAt_acceptorFirst(h, this, location, viewTransform, acceptor) ==
    LET editors == h.node[this].editors
        sub == IF ~editors.isNull /\ Len(editors.items) # 0
               THEN probeEditors(h, this, Len(editors.items) - 1, location, viewTransform, acceptor)
               ELSE 0
        bbox == getBBox(h, this, viewTransform)
    IN IF acceptor.given /\ acceptorCall(acceptor, h, this) # "true" THEN 0
       ELSE IF sub # 0 THEN sub
       ELSE IF bbox # NullRect /\ ~isEmpty(bbox) /\ containsPoint(bbox, location)
       THEN getPartInfoAtSelf(h, this, location, viewTransform)
       ELSE 0

\* GXElementEditor.prototype.getPartInfoAt; the result is the editor of the
\* part found, 0 is null
getPartInfoAt(h, this, location, viewTransform, acceptor) ==
    LET editors == h.node[this].editors
        sub == IF ~editors.isNull /\ Len(editors.items) # 0
               THEN probeEditors(h, this, Len(editors.items) - 1, location, viewTransform, acceptor)
               ELSE 0
        bbox == getBBox(h, this, viewTransform)
    IN IF sub # 0 THEN sub
       ELSE IF acceptor.given /\ acceptorCall(acceptor, h, this) # "true" THEN 0
       ELSE IF bbox # NullRect /\ ~isEmpty(bbox) /\ containsPoint(bbox, location)
       THEN getPartInfoAtSelf(h, this, location, viewTransform)
       ELSE 0

RECURSIVE acceptorCalls(_, _, _, _, _)
RECURSIVE acceptorCallsOf(_, _, _, _, _, _)
\* getPartInfoAt, the loop over the sub editors from i down to 0: the editors
\* the acceptor is called on while the loop runs, in order
acceptorCallsOf(h, this, i, location, viewTransform, acceptor) ==
    IF i < 0 THEN <<>>
    ELSE LET child == h.node[this].editors.items[i + 1]
             calls == acceptorCalls(h, child, location, viewTransform, acceptor)
         IN IF getPartInfoAt(h, child, location, viewTransform, acceptor) # 0
            THEN calls
            ELSE calls \o acceptorCallsOf(h, this, i - 1, location, viewTransform, acceptor)

\* GXElementEditor.prototype.getPartInfoAt: the editors the acceptor is
\* called on during the call, in order
acceptorCalls(h, this, location, viewTransform, acceptor) ==
    LET editors == h.node[this].editors
        probed == ~editors.isNull /\ Len(editors.items) # 0
        sub == IF probed
               THEN probeEditors(h, this, Len(editors.items) - 1, location, viewTransform, acceptor)
               ELSE 0
        calls == IF probed
                 THEN acceptorCallsOf(h, this, Len(editors.items) - 1, location,
                                      viewTransform, acceptor)
                 ELSE <<>>
    IN IF sub # 0 THEN calls
       ELSE IF acceptor.given THEN Append(calls, this)
       ELSE calls

(***************************************************************************)
(* Annotations. Coordinates are fixed-point numbers, Unit to the pixel.    *)
(***************************************************************************)
\* the fixed-point value of 1: coordinates are counted in quarters of a pixel
Unit == 4

\* GXElementEditor.OPTIONS.annotationSizeRegular
annotationSizeRegular == 6

\* GXElementEditor.OPTIONS.annotationSizeSmall
annotationSizeSmall == 4

\* Math.floor of a fixed-point number
floor(x) == (x \div Unit) * Unit

\* GTransform.mapPoint for a translation; a point is <<x, y>>
mapPoint(matrix, point) == <<point[1] + matrix.tx, point[2] + matrix.tx>>

\* _getAnnotationBBox that does not snap the center to the pixel
getAnnotationBBox_noSnap(matrix, center, small) ==
    LET mapped == IF ~matrix.isNull THEN mapPoint(matrix, center) ELSE center
        size == IF small THEN annotationSizeSmall ELSE annotationSizeRegular
        cx == mapped[1] + Unit \div 2
        cy == mapped[2] + Unit \div 2
    IN [x |-> cx - (size * Unit) \div 2 - Unit, y |-> cy - (size * Unit) \div 2 - Unit,
        width |-> (size + 2) * Unit, height |-> (size + 2) * Unit]

\* GXElementEditor.prototype._getAnnotationBBox; the result is the GRect
\* (x, y, width, height)
getAnnotationBBox(matrix, center, small) ==
    LET mapped == IF ~matrix.isNull THEN mapPoint(matrix, center) ELSE center
        size == IF small THEN annotationSizeSmall ELSE annotationSizeRegular
        cx == floor(mapped[1]) + Unit \div 2
        cy == floor(mapped[2]) + Unit \div 2
    IN [x |-> cx - (size * Unit) \div 2 - Unit, y |-> cy - (size * Unit) \div 2 - Unit,
        width |-> (size + 2) * Unit, height |-> (size + 2) * Unit]

(***************************************************************************)
(* Visiting                                                                *)
(***************************************************************************)
\* visitor.call(null, editor): false on the elements the visitor stops at,
\* the visitor's other value elsewhere
visitorCall(visitor, h, editor) ==
    IF h.node[editor].element \in visitor.stops THEN "false" ELSE visitor.other

RECURSIVE accept(_, _, _)
RECURSIVE acceptEditors(_, _, _, _)
\* the loop over the sub editors that goes on after a cancelled sub editor
acceptEditors_goOn(h, this, i, visitor) ==
    IF i >= Len(h.node[this].editors.items) THEN [h EXCEPT !.result = "true"]
    ELSE acceptEditors(accept(h, h.node[this].editors.items[i + 1], visitor), this, i + 1, visitor)

\* accept, the loop over the sub editors from i on
acceptEditors(h, this, i, visitor) ==
    IF i >= Len(h.node[this].editors.items) THEN [h EXCEPT !.result = "true"]
    ELSE LET h1 == accept(h, h.node[this].editors.items[i + 1], visitor)
         IN IF h1.result = "false" THEN h1
            ELSE acceptEditors(h1, this, i + 1, visitor)

\* GXElementEditor.prototype.accept; the visitor's calls are recorded
accept(h, this, visitor) ==
    LET h1 == [h EXCEPT !.events = Append(@, Event("visit", this, h))]
    IN IF visitorCall(visitor, h, this) = "false"
       THEN [h1 EXCEPT !.result = "false"]
       ELSE IF ~h.node[this].editors.isNull
       THEN acceptEditors(h1, this, 0, visitor)
       ELSE [h1 EXCEPT !.result = "true"]

(***************************************************************************)
(* State machine: the host's calls                                         *)
(***************************************************************************)
\* what the host saw of a call: the operation, the element it was made for,
\* the arguments, the part selection before it, the value returned, the
\* error thrown, the instances constructed, the hooks fired and the
\* invalidations requested, in order
\* the arguments of the calls that take other arguments than an element and
\* a selection
NoArgs ==
    [flag |-> 0, transform |-> NullTransform, target |-> 0, stops |-> {}, other |-> "",
     parent |-> 0, child |-> 0, reference |-> 0, partId |-> 0,
     rect |-> [x |-> 0, y |-> 0, width |-> 0, height |-> 0]]

Call(op, element, toggle, selection, before, h) ==
    [op |-> op, element |-> element, toggle |-> toggle, selection |-> selection,
     before |-> before, ret |-> h.ret, err |-> h.err, events |-> h.events,
     created |-> h.created, result |-> h.result, arg |-> NoArgs]

NoCall == Call("none", 0, FALSE, NullArray, NullArray, Heap(<<>>, <<>>, {}))

\* the instances the host and the elements still hold a reference to
Roots(h, call) ==
    ({h.slot[e] : e \in Elements} \cup {call.ret}
        \cup {call.events[i][2] : i \in 1..Len(call.events)}) \ {0}

RECURSIVE Reachable(_, _)
\* the instances reachable from a set of instances by parent and child references
Reachable(nodes, from) ==
    LET more == from \cup {nodes[n].parentEditor : n \in from}
                     \cup UNION {{nodes[n].editors.items[i] :
                                   i \in 1..Len(nodes[n].editors.items)} : n \in from}
        step == more \ {0}
    IN IF step = from THEN from ELSE Reachable(nodes, step)

\* the children sequence of an instance
Children(nodes, n) == nodes[n].editors.items

RECURSIVE EditorSubtree(_, _)
\* the instances below (and including) a set of instances
EditorSubtree(nodes, from) ==
    LET more == from \cup UNION {{Children(nodes, n)[i] : i \in 1..Len(Children(nodes, n))} : n \in from}
    IN IF more = from THEN from ELSE EditorSubtree(nodes, more)

\* garbage collection: instances nothing refers to any more cease to exist
collect(h, call) ==
    LET live == Reachable(h.node, Roots(h, call))
    IN [i \in Cells |-> IF i \in live THEN h.node[i] ELSE Free]

Finish(call, h) ==
    /\ ~h.full
    /\ node' = collect(h, call)
    /\ slot' = h.slot
    /\ last' = call

Now == Heap(node, slot, attached)

Open(element) ==
    LET h == openEditor(Now, element)
    IN Finish(Call("open", element, FALSE, NullArray, NullArray, h), h)

Close(element) ==
    LET h == closeEditor(Now, element)
    IN Finish(Call("close", element, FALSE, NullArray, NullArray, h), h)

SetFlag(element, flag) ==
    /\ getEditor(Now, element) # 0
    /\ LET h == setFlag(Now, getEditor(Now, element), flag)
       IN Finish([Call("setFlag", element, FALSE, NullArray, NullArray, h)
                      EXCEPT !.arg.flag = flag], h)

RemoveFlag(element, flag) ==
    /\ getEditor(Now, element) # 0
    /\ LET h == removeFlag(Now, getEditor(Now, element), flag)
       IN Finish([Call("removeFlag", element, FALSE, NullArray, NullArray, h)
                      EXCEPT !.arg.flag = flag], h)

UpdatePartSelection(element, toggle, selection) ==
    /\ getEditor(Now, element) # 0
    /\ LET this == getEditor(Now, element)
           h == updatePartSelection(Now, this, toggle, selection)
       IN Finish(Call("updatePartSelection", element, toggle, selection,
                      node[this].partSelection, h), h)

IsPartSelected(element, partId) ==
    /\ getEditor(Now, element) # 0
    /\ LET this == getEditor(Now, element)
           h == [Now EXCEPT !.result = IF isPartSelected(Now, this, partId)
                                       THEN "true" ELSE "false"]
       IN Finish([Call("isPartSelected", element, FALSE, NullArray, NullArray, h)
                      EXCEPT !.arg.partId = partId], h)

\* _getAnnotationBBox called on an element's editor with the view's
\* transform, center and size
GetAnnotationBBox(element) ==
    /\ getEditor(Now, element) # 0
    /\ LET h == Now
       IN Finish([Call("getAnnotationBBox", element, FALSE, NullArray, NullArray, h)
                      EXCEPT !.arg.rect = getAnnotationBBox(view.transform, view.center,
                                                            view.small)], h)

HitTest(element) ==
    /\ getEditor(Now, element) # 0
    /\ LET this == getEditor(Now, element)
           calls == acceptorCalls(Now, this, view.location, view.transform, view.acceptor)
           h == [Now EXCEPT !.ret = getPartInfoAt(Now, this, view.location,
                                                  view.transform, view.acceptor),
                            !.events = [k \in 1..Len(calls) |->
                                            Event("acceptor", calls[k], Now)]]
       IN Finish(Call("hitTest", element, FALSE, NullArray, NullArray, h), h)

\* parent.insertEditor(editor, referenceEditor) called by the host on the
\* editors of three elements; reference 0 is a null referenceEditor
InsertEditor(parent, child, reference) ==
    /\ getEditor(Now, parent) # 0 /\ getEditor(Now, child) # 0
    /\ reference # 0 => getEditor(Now, reference) # 0
    /\ LET h == insertEditor(Now, getEditor(Now, parent), getEditor(Now, child),
                             IF reference = 0 THEN 0 ELSE getEditor(Now, reference))
       IN Finish([Call("insertEditor", parent, FALSE, NullArray, NullArray, h)
                      EXCEPT !.arg.parent = getEditor(Now, parent),
                             !.arg.child = getEditor(Now, child),
                             !.arg.reference = IF reference = 0 THEN 0
                                               ELSE getEditor(Now, reference)], h)

\* parent.removeEditor(editor) called by the host
RemoveEditor(parent, child) ==
    /\ getEditor(Now, parent) # 0 /\ getEditor(Now, child) # 0
    /\ LET h == removeEditor(Now, getEditor(Now, parent), getEditor(Now, child))
       IN Finish([Call("removeEditor", parent, FALSE, NullArray, NullArray, h)
                      EXCEPT !.arg.parent = getEditor(Now, parent),
                             !.arg.child = getEditor(Now, child)], h)

\* the owner of an element of a kind without a registered editor attaches
\* an editor of its own to the element (element.__editor__ is set by hand)
AttachForeign(element) ==
    /\ element \notin Registered
    /\ isAttached(Now, element)
    /\ getEditor(Now, element) = 0
    /\ alloc(Now, element) # 0
    /\ LET editor == alloc(Now, element)
           h == [Now EXCEPT !.node[editor] = NewEditor(element),
                            !.created = {editor},
                            !.slot[element] = editor,
                            !.ret = editor]
       IN Finish(Call("attachForeign", element, FALSE, NullArray, NullArray, h), h)

RECURSIVE SceneSubtree(_)
\* the elements of a scene tree: its root and everything below
SceneSubtree(from) ==
    LET more == from \cup {e \in Elements : getParent(e) \in from}
    IN IF more = from THEN from ELSE SceneSubtree(more)

\* the scene: a tree of elements leaves the live scene, editors or not
Detach(root) ==
    /\ getParent(root) = 0
    /\ root \in attached
    /\ attached' = attached \ SceneSubtree({root})
    /\ UNCHANGED <<node, slot, view, last, prev>>

\* the scene: a tree of elements becomes part of the live scene (again)
Attach(root) ==
    /\ getParent(root) = 0
    /\ root \notin attached
    /\ attached' = attached \cup SceneSubtree({root})
    /\ UNCHANGED <<node, slot, view, last, prev>>

Accept(element, visitor) ==
    /\ getEditor(Now, element) # 0
    /\ LET h == accept(Now, getEditor(Now, element), visitor)
       IN Finish([Call("accept", element, FALSE, NullArray, NullArray, h)
                      EXCEPT !.arg.stops = visitor.stops, !.arg.other = visitor.other], h)

Transform(element, newTransform) ==
    /\ getEditor(Now, element) # 0
    /\ LET h == transform(Now, getEditor(Now, element), newTransform)
       IN Finish([Call("transform", element, FALSE, NullArray, NullArray, h)
                      EXCEPT !.arg.transform = newTransform], h)

ResetTransform(element) ==
    /\ getEditor(Now, element) # 0
    /\ LET h == resetTransform(Now, getEditor(Now, element))
       IN Finish(Call("resetTransform", element, FALSE, NullArray, NullArray, h), h)

ApplyTransform(element, target) ==
    /\ getEditor(Now, element) # 0
    /\ LET h == applyTransform(Now, getEditor(Now, element), target)
       IN Finish([Call("applyTransform", element, FALSE, NullArray, NullArray, h)
                      EXCEPT !.arg.target = target], h)

NoView == [location |-> 0, transform |-> 0,
           acceptor |-> [given |-> FALSE, accepts |-> {}, other |-> "false"]]

InitEditors ==
    /\ node = [i \in Cells |-> Free]
    /\ slot = [e \in Elements |-> 0]
    /\ last = NoCall
    /\ prev = NoCall

(***************************************************************************)
(* Spec: open and close on the whole scene                                 *)
(***************************************************************************)
Init ==
    /\ InitEditors
    /\ attached = Elements \ {8}
    /\ view = NoView

Next ==
    /\ \/ \E element \in Elements : Open(element)
       \/ \E element \in Elements : Close(element)
    /\ UNCHANGED <<attached, view, prev>>

Spec == Init /\ [][Next]_vars

(***************************************************************************)
(* SpecHit: hit tests on the editors of a part of the scene; the location, *)
(* the view transform and the acceptor are the behaviour's inputs          *)
(***************************************************************************)
\* the largest view coordinate probed
MaxCoord == 6

HitElements == {1, 2, 6, 7}

Acceptors ==
    {[given |-> FALSE, accepts |-> {}, other |-> "false"]}
    \cup {[given |-> TRUE, accepts |-> HitElements \ {e}, other |-> v] :
              e \in HitElements, v \in {"false", "truthy"}}

Views == {[location |-> l, transform |-> 0, acceptor |-> a] : l \in 0..MaxCoord, a \in Acceptors}

InitHit ==
    /\ InitEditors
    /\ attached = HitElements
    /\ view \in Views

NextHit ==
    /\ \/ \E element \in HitElements : Open(element)
       \/ \E element \in HitElements : SetFlag(element, Selected)
       \/ \E element \in HitElements : HitTest(element)
    /\ UNCHANGED <<attached, view, prev>>

SpecHit == InitHit /\ [][NextHit]_vars

(***************************************************************************)
(* SpecSel: the part selection of one element's editor                     *)
(***************************************************************************)
\* the part ids of the element's editor
PartIds == {1, 2}

\* the longest id list passed to updatePartSelection
MaxSelLen == 2

SelElements == {1}

\* the id lists a caller passes: absent (null), empty, or ids, repeats included
Selections ==
    {NullArray} \cup {Array(ids) : ids \in UNION {[1..len -> PartIds] : len \in 0..MaxSelLen}}

InitSel ==
    /\ InitEditors
    /\ attached = SelElements
    /\ view = NoView

NextSel ==
    /\ \/ \E element \in SelElements : Open(element)
       \/ \E element \in SelElements : Close(element)
       \/ \E element \in SelElements : SetFlag(element, Selected)
       \/ \E element \in SelElements : RemoveFlag(element, Selected)
       \/ \E element \in SelElements, toggle \in BOOLEAN, selection \in Selections :
              UpdatePartSelection(element, toggle, selection)
    /\ UNCHANGED <<attached, view, prev>>

SpecSel == InitSel /\ [][NextSel]_vars

(***************************************************************************)
(* SpecXf: the flags and the staged transform of one element's editor      *)
(***************************************************************************)
\* the largest translation staged
MaxShift == 1

XfElements == {1}

\* the elements a staged transform is applied to: the editor's own element
\* or a clone of it, which is not part of the scene
XfTargets == {1, 8}

XfFlags == {Selected, Outline}

\* the transforms a caller stages: none (null), the identity, translations
Transforms == {NullTransform} \cup {Translation(tx) : tx \in 0..MaxShift}

InitXf ==
    /\ InitEditors
    /\ attached = XfElements
    /\ view = NoView

NextXf ==
    /\ \/ \E element \in XfElements : Open(element)
       \/ \E element \in XfElements, flag \in XfFlags : SetFlag(element, flag)
       \/ \E element \in XfElements, flag \in XfFlags : RemoveFlag(element, flag)
       \/ \E element \in XfElements, newTransform \in Transforms :
              Transform(element, newTransform)
       \/ \E element \in XfElements : ResetTransform(element)
       \/ \E element \in XfElements, target \in XfTargets : ApplyTransform(element, target)
    /\ UNCHANGED <<attached, view, prev>>

SpecXf == InitXf /\ [][NextXf]_vars

(***************************************************************************)
(* SpecPrim: the host calls the structural primitives on open editors      *)
(***************************************************************************)
PrimElements == {1, 2, 6}

InitPrim ==
    /\ InitEditors
    /\ attached = PrimElements
    /\ view = NoView

NextPrim ==
    /\ \/ \E element \in PrimElements : Open(element)
       \/ \E parent \in PrimElements, child \in PrimElements, reference \in PrimElements \cup {0} :
              InsertEditor(parent, child, reference)
       \/ \E parent \in PrimElements, child \in PrimElements : RemoveEditor(parent, child)
    /\ UNCHANGED <<attached, view, prev>>

SpecPrim == InitPrim /\ [][NextPrim]_vars

(***************************************************************************)
(* SpecVisit: visitors on the editors of a part of the scene               *)
(***************************************************************************)
VisitElements == {1, 2, 3, 6}

\* the visitors: false on some elements, elsewhere true, nothing (undefined)
\* or a falsy value that is not a Boolean
Visitors ==
    {[stops |-> stops, other |-> other] :
         stops \in SUBSET VisitElements, other \in {"true", "undefined", "zero"}}

InitVisit ==
    /\ InitEditors
    /\ attached = VisitElements
    /\ view = NoView

NextVisit ==
    /\ \/ \E element \in VisitElements : Open(element)
       \/ \E element \in VisitElements, visitor \in Visitors : Accept(element, visitor)
    /\ UNCHANGED <<attached, view, prev>>

SpecVisit == InitVisit /\ [][NextVisit]_vars

(***************************************************************************)
(* SpecLive: open and close while the scene tree leaves and rejoins the    *)
(* live scene; element 8 is a tree of its own that may join it             *)
(***************************************************************************)
LiveRoots == {1, 8}

LiveElements == {1, 2, 4, 6, 8}

InitLive ==
    /\ InitEditors
    /\ attached = SceneSubtree({1})
    /\ view = NoView

NextLive ==
    \/ /\ \/ \E element \in LiveElements : Open(element)
          \/ \E element \in LiveElements : Close(element)
       /\ UNCHANGED <<attached, view, prev>>
    \/ \E root \in LiveRoots : Detach(root)
    \/ \E root \in LiveRoots : Attach(root)

SpecLive == InitLive /\ [][NextLive]_vars

(***************************************************************************)
(* SpecForeign: open and close where an element of an unregistered kind    *)
(* may carry an editor its owner attached                                  *)
(***************************************************************************)
ForeignElements == {1, 4, 5, 6}

InitForeign ==
    /\ InitEditors
    /\ attached = ForeignElements
    /\ view = NoView

NextForeign ==
    /\ \/ \E element \in ForeignElements : Open(element)
       \/ \E element \in ForeignElements : Close(element)
       \/ \E element \in ForeignElements : AttachForeign(element)
    /\ UNCHANGED <<attached, view, prev>>

SpecForeign == InitForeign /\ [][NextForeign]_vars

(***************************************************************************)
(* SpecNode: the flags, the staged transform and the part selection of one *)
(* element's editor together                                               *)
(***************************************************************************)
NodeElements == {1}

NodeFlags == {Selected, Highlighted, Outline}

\* the id lists passed to updatePartSelection: absent, one id, two ids
NodeSelections == {NullArray, Array(<<1>>), Array(<<1, 2>>)}

InitNode ==
    /\ InitEditors
    /\ attached = NodeElements
    /\ view = NoView

NextNode ==
    /\ \/ \E element \in NodeElements : Open(element)
       \/ \E element \in NodeElements, flag \in NodeFlags : SetFlag(element, flag)
       \/ \E element \in NodeElements, flag \in NodeFlags : RemoveFlag(element, flag)
       \/ \E element \in NodeElements, newTransform \in Transforms :
              Transform(element, newTransform)
       \/ \E element \in NodeElements : ResetTransform(element)
       \/ \E element \in NodeElements, toggle \in BOOLEAN, selection \in NodeSelections :
              UpdatePartSelection(element, toggle, selection)
       \/ \E element \in NodeElements, partId \in PartIds : IsPartSelected(element, partId)
    /\ UNCHANGED <<attached, view, prev>>

SpecNode == InitNode /\ [][NextNode]_vars

(***************************************************************************)
(* SpecTree: open and close mixed with the host's calls of the structural  *)
(* primitives: the host moves the editor of A between the editors of R and *)
(* B, and inserts no editor below itself                                   *)
(***************************************************************************)
TreeParents == {1, 6}

TreeChildren == {2}

TreeReferences == {0, 6}

NextTree ==
    /\ \/ \E element \in PrimElements : Open(element)
       \/ \E element \in PrimElements : Close(element)
       \/ \E parent \in TreeParents, child \in TreeChildren, reference \in TreeReferences :
              /\ slot[parent] # 0 /\ slot[child] # 0
              /\ slot[parent] \notin EditorSubtree(node, {slot[child]})
              /\ InsertEditor(parent, child, reference)
       \/ \E parent \in TreeParents, child \in TreeChildren : RemoveEditor(parent, child)
    /\ UNCHANGED <<attached, view, prev>>

SpecTree == InitPrim /\ [][NextTree]_vars

(***************************************************************************)
(* SpecAnn: the bounding box of an annotation; the center, the view        *)
(* transform and the size are the behaviour's inputs                       *)
(***************************************************************************)
\* the largest coordinate of a center, in quarters of a pixel
MaxCenter == 5

AnnElements == {1}

\* the view transforms: none (null), the identity, a translation by a pixel
\* and a half
AnnTransforms == {NullTransform, Translation(0), Translation(Unit + Unit \div 2)}

AnnViews ==
    {[transform |-> t, center |-> <<x, y>>, small |-> small] :
         t \in AnnTransforms, x \in (-MaxCenter)..MaxCenter, y \in {-3, 0, 6},
         small \in BOOLEAN}

InitAnn ==
    /\ InitEditors
    /\ attached = AnnElements
    /\ view \in AnnViews

NextAnn ==
    /\ \/ \E element \in AnnElements : Open(element)
       \/ \E element \in AnnElements : GetAnnotationBBox(element)
    /\ UNCHANGED <<attached, view, prev>>

SpecAnn == InitAnn /\ [][NextAnn]_vars

(***************************************************************************)
(* SpecSeq: open and close on a part of the scene, calls paired            *)
(***************************************************************************)
SeqElements == {1, 2, 3, 6}

InitSeq ==
    /\ InitEditors
    /\ attached = SeqElements
    /\ view = NoView

NextSeq ==
    /\ \/ \E element \in SeqElements : Open(element)
       \/ \E element \in SeqElements : Close(element)
    /\ prev' = last
    /\ UNCHANGED <<attached, view>>

SpecSeq == InitSeq /\ [][NextSeq]_vars

(***************************************************************************)
(* Properties of the editor tree                                           *)
(***************************************************************************)
\* the invalidation requests among a call's events
Invalidations(events) == SelectSeq(events, LAMBDA e : e[1] = "invalidate")

\* the calls of an element's transform among a call's events
Applications(events) == SelectSeq(events, LAMBDA e : e[1] = "apply")

\* the elements of the children of an instance, in sequence
ChildElements(nodes, n) == [i \in 1..Len(Children(nodes, n)) |-> nodes[Children(nodes, n)[i]].element]

\* the instances some element's slot holds
Slotted == {slot[e] : e \in Elements} \ {0}

RECURSIVE isAncestor(_, _)
\* a is a proper scene ancestor of e
isAncestor(a, e) ==
    IF e = 0 \/ getParent(e) = 0 THEN FALSE
    ELSE getParent(e) = a \/ isAncestor(a, getParent(e))

RECURSIVE nearestWithEditor(_)
\* the nearest proper scene ancestor of e whose slot holds an editor, or 0
nearestWithEditor(e) ==
    IF getParent(e) = 0 THEN 0
    ELSE IF slot[getParent(e)] # 0 THEN getParent(e)
    ELSE nearestWithEditor(getParent(e))

\* C1: close(E) on a registered element with an editor empties the slot of E
\* and of every element whose editor was in the subtree of E's editor.
C1_CloseClosesSubtree ==
    [][(last'.op = "close" /\ last'.element \in Registered /\ slot[last'.element] # 0)
        => \A n \in EditorSubtree(node, {slot[last'.element]}) : slot'[node[n].element] = 0]_vars

\* C2: open(E) on an element without an editor followed by close(E) leaves
\* E's slot empty, E's former node in no children sequence and with no parent.
C2_OpenCloseRestores ==
    (/\ prev.op = "open" /\ prev.err = "" /\ prev.ret # 0 /\ prev.ret \in prev.created
     /\ last.op = "close" /\ last.element = prev.element)
    => /\ slot[prev.element] = 0
       /\ node[prev.ret].parentEditor = 0
       /\ \A m \in Cells : \A i \in 1..Len(Children(node, m)) : Children(node, m)[i] # prev.ret

\* a close that follows the open of the same element, whose new editor was
\* linked under its parent's editor
C2_Witness ==
    /\ prev.op = "open" /\ prev.err = "" /\ prev.ret # 0 /\ prev.ret \in prev.created
    /\ last.op = "close" /\ last.element = prev.element /\ last.err = ""
    /\ getParent(prev.element) # 0 /\ slot[getParent(prev.element)] # 0
    /\ Len(last.events) = 1
    /\ last.events[1][1] = "detach" /\ last.events[1][2] = prev.ret

\* C3: open(E) on an element that has an editor returns that editor, fires
\* no hook, constructs nothing and changes no slot and no instance.
C3_OpenIdempotent ==
    [][(last'.op = "open" /\ slot[last'.element] # 0)
        => /\ last'.ret = slot[last'.element]
           /\ last'.err = ""
           /\ last'.events = <<>>
           /\ last'.created = {}
           /\ slot' = slot
           /\ \A n \in Reachable(node, Slotted) : node'[n] = node[n]]_vars

\* an open that returned an editor it did not construct
C3_Witness ==
    /\ last.op = "open" /\ last.err = "" /\ last.ret # 0 /\ last.created = {}
    /\ node[last.ret].parentEditor # 0

\* C4: the editors of scene siblings are listed under their parent's editor
\* in the siblings' document order, whatever the order of the open calls;
\* an editor open has just constructed is listed under the parent's editor.
C4_SiblingOrder ==
    /\ \A n \in Slotted : \A i, j \in 1..Len(Children(node, n)) :
           (i < j /\ getParent(ChildElements(node, n)[i]) = getParent(ChildElements(node, n)[j]))
           => ChildElements(node, n)[i] < ChildElements(node, n)[j]
    /\ (/\ last.op = "open" /\ last.err = "" /\ last.ret \in last.created
        /\ getParent(last.element) # 0 /\ slot[getParent(last.element)] # 0)
       => \E i \in 1..Len(Children(node, slot[getParent(last.element)])) :
              Children(node, slot[getParent(last.element)])[i] = last.ret

\* scene children [A, B] of R: A was opened after B and is listed before it
C4_Witness ==
    /\ last.op = "open" /\ last.element = 2 /\ last.created = {slot[2]}
    /\ slot[1] # 0 /\ slot[6] # 0
    /\ Children(node, slot[1]) = <<slot[2], slot[6]>>

\* C5: every children sequence is in the document order of its elements,
\* also of elements that are not scene siblings.
C5_DocumentOrder ==
    \A n \in Slotted : \A i, j \in 1..Len(Children(node, n)) :
        i < j => ChildElements(node, n)[i] < ChildElements(node, n)[j]

\* the instances of the live editor tree: a slotted instance's children
Listed == UNION {{Children(node, n)[i] : i \in 1..Len(Children(node, n))} : n \in Slotted}

\* C6: an element's slot holds a node iff the node is a parentless root or
\* is listed under a node its own element's slot holds; one node per element.
C6_TreeAndSlotsAgree ==
    /\ \A n \in Slotted \cup Listed :
           (slot[node[n].element] = n)
           <=> (node[n].parentEditor = 0 \/ n \in Listed)
    /\ \A n, m \in Slotted \cup Listed : node[n].element = node[m].element => n = m

\* C7: the children of a node are exactly the editors of the descendants of
\* its element whose nearest ancestor with an editor is that element.
C7_NearestAncestorChildren ==
    \A e \in Elements : slot[e] # 0 =>
        {Children(node, slot[e])[i] : i \in 1..Len(Children(node, slot[e]))}
        = {slot[d] : d \in {x \in Elements : slot[x] # 0 /\ isAncestor(e, x)
                                               /\ nearestWithEditor(x) = e}}

\* C13: an open or close that throws leaves every slot, every children
\* sequence and every parent reference as it was; no editor the failing call
\* constructed is in a slot.
C13_NoPartialFailure ==
    [][(last'.op \in {"open", "close"} /\ last'.err # "")
        => /\ slot' = slot
           /\ \A n \in Reachable(node, Slotted) :
                  /\ node'[n].editors.items = node[n].editors.items
                  /\ node'[n].parentEditor = node[n].parentEditor
           /\ \A e \in Elements : slot'[e] \notin last'.created]_vars

\* no node is listed at two places of the children sequences
ListedOnce ==
    LET existing == {n \in Cells : node[n] # Free}
    IN \A m1, m2 \in existing :
           \A i \in 1..Len(Children(node, m1)), j \in 1..Len(Children(node, m2)) :
               Children(node, m1)[i] = Children(node, m2)[j] => (m1 = m2 /\ i = j)

\* a primitive's arguments are invalid
InvalidPrimitiveCall ==
    \/ /\ last'.op = "insertEditor"
       /\ \/ node[last'.arg.child].parentEditor # 0
          \/ /\ last'.arg.reference # 0
             /\ indexOf(Children(node, last'.arg.parent), last'.arg.reference) < 0
    \/ /\ last'.op = "removeEditor"
       /\ indexOf(Children(node, last'.arg.parent), last'.arg.child) < 0

\* C14: insertEditor throws for an editor that has a parent and for a
\* reference that is not a child of the parent, removeEditor throws for an
\* editor that is not a child of the parent; a call that throws changes no
\* children sequence and no parent reference, and no node is ever listed
\* under two parents.
C14_PrimitivesReject ==
    /\ []ListedOnce
    /\ [][/\ InvalidPrimitiveCall => last'.err # ""
          /\ (last'.op \in {"insertEditor", "removeEditor"} /\ last'.err # "")
             => node' = node]_vars

\* an insertEditor that threw for an editor listed under another parent
C14_Witness ==
    /\ last.op = "insertEditor" /\ last.err = "Editor already appended."
    /\ node[last.arg.child].parentEditor # 0
    /\ node[last.arg.child].parentEditor # last.arg.parent
    /\ last.arg.reference # 0

\* C18: when a node's detach hook fires during a close, every node that was
\* its child when the close began has had its detach hook fired and its slot
\* cleared, and the node's children sequence is empty.
C18_DetachAfterChildren ==
    [][(last'.op = "close")
        => \A k \in 1..Len(last'.events) :
               last'.events[k][1] = "detach"
               => /\ last'.events[k][3].editors.items = <<>>
                  /\ \A i \in 1..Len(Children(node, last'.events[k][2])) :
                         LET child == Children(node, last'.events[k][2])[i]
                         IN /\ \E j \in 1..(k - 1) :
                                   /\ last'.events[j][1] = "detach"
                                   /\ last'.events[j][2] = child
                            /\ last'.events[k][3].slot[node[child].element] = 0]_vars

\* C20: open(E) on an element that is not part of the live scene throws,
\* with or without an editor in E's slot and whatever E's kind; it
\* constructs nothing, fires no hook and changes no slot and no instance.
C20_OpenDetachedFails ==
    [][(last'.op = "open" /\ attached' = attached /\ last'.element \notin attached)
        => /\ last'.err # ""
           /\ last'.ret = 0
           /\ last'.created = {}
           /\ last'.events = <<>>
           /\ slot' = slot
           /\ \A n \in Cells : node'[n] # Free => node'[n] = node[n]
           /\ \A n \in Reachable(node, Slotted) : node'[n] = node[n]]_vars

\* an open that threw on an element that has an editor and left the scene
C20_Witness ==
    /\ last.op = "open" /\ last.err # ""
    /\ last.element \notin attached
    /\ slot[last.element] # 0
    /\ node[slot[last.element]].parentEditor # 0

\* C21: close(E) on an element without an editor, or with an editor but of
\* a kind that is not registered, throws nothing, fires no hook and changes
\* no slot and no instance (the foreign editor's subtree included).
C21_CloseNoop ==
    [][(/\ last'.op = "close" /\ attached' = attached
        /\ (slot[last'.element] = 0 \/ last'.element \notin Registered))
        => /\ last'.err = ""
           /\ last'.events = <<>>
           /\ slot' = slot
           /\ \A n \in Reachable(node, Slotted) : node'[n] = node[n]]_vars

\* a close on an element of an unregistered kind whose editor has a child
C21_Witness ==
    /\ last.op = "close" /\ last.element \notin Registered
    /\ slot[last.element] # 0
    /\ Len(Children(node, slot[last.element])) > 0
    /\ last.events = <<>>

\* C22: open(E) on a live element of an unregistered kind with an empty
\* slot returns no editor, throws nothing, constructs nothing, fires no hook
\* and changes no slot and no instance, whatever editors E's ancestors lack.
C22_OpenUnregistered ==
    [][(/\ last'.op = "open" /\ attached' = attached
        /\ last'.element \in attached /\ last'.element \notin Registered
        /\ slot[last'.element] = 0)
        => /\ last'.ret = 0
           /\ last'.err = ""
           /\ last'.created = {}
           /\ last'.events = <<>>
           /\ slot' = slot
           /\ \A n \in Reachable(node, Slotted) : node'[n] = node[n]]_vars

\* an open on the element of an unregistered kind while its parent, of a
\* registered kind, has no editor
C22_Witness ==
    /\ last.op = "open" /\ last.element = 4 /\ last.ret = 0 /\ last.err = ""
    /\ getParent(4) \in Registered /\ slot[getParent(4)] = 0
    /\ slot[4] = 0

\* the nodes whose detach hook fired in the last call
Detached == {last.events[k][2] : k \in {i \in 1..Len(last.events) : last.events[i][1] = "detach"}}

\* the editor subtree of the element of the last call, a close, as it was
\* when the close began: the nodes the close detached and the subtrees of
\* the children it left under them
ClosedSubtree ==
    Detached \cup EditorSubtree(node, UNION {{Children(node, n)[i] : i \in 1..Len(Children(node, n))} :
                                               n \in Detached})

\* C25: an open that follows a close of a registered element E, on E or on
\* an element whose editor was in the subtree of E's editor, returns a newly
\* constructed node, not the one attached before the close, with no flags,
\* no staged transform, no part selection and no children.
C25_NeverReused ==
    [][(/\ last.op = "close" /\ last.element \in Registered /\ last.err = ""
        /\ last'.op = "open" /\ last'.err = "" /\ attached' = attached
        /\ \E n \in ClosedSubtree : node[n].element = last'.element)
        => /\ last'.ret \notin ClosedSubtree
           /\ last'.ret \in last'.created
           /\ node'[last'.ret].flags = 0
           /\ node'[last'.ret].transform = NullTransform
           /\ node'[last'.ret].partSelection = NullArray
           /\ Children(node', last'.ret) = <<>>]_vars

\* C27: a node's parent reference is P iff the node occurs in P's children
\* sequence; it occurs there once and nowhere else; a node without a parent
\* reference occurs in no children sequence.
C27_ParentChildConsistent ==
    LET existing == {n \in Cells : node[n] # Free}
        occurs(n, P) == {i \in 1..Len(Children(node, P)) : Children(node, P)[i] = n}
    IN \A n \in existing :
           /\ \A P \in existing :
                  /\ node[n].parentEditor = P <=> occurs(n, P) # {}
                  /\ Cardinality(occurs(n, P)) <= 1
           /\ node[n].parentEditor # 0 => node[n].parentEditor \in existing

\* the host moved A's editor from R's editor to B's: B's editor lists A's,
\* R's lists B's only
C27_Witness ==
    /\ last.op = "insertEditor" /\ last.err = ""
    /\ slot[1] # 0 /\ slot[2] # 0 /\ slot[6] # 0
    /\ node[slot[2]].parentEditor = slot[6]
    /\ Children(node, slot[6]) = <<slot[2]>>
    /\ Children(node, slot[1]) = <<slot[6]>>

RECURSIVE nearestRegistered(_)
\* the nearest proper scene ancestor of e that is of a registered kind, or 0
nearestRegistered(e) ==
    IF getParent(e) = 0 THEN 0
    ELSE IF getParent(e) \in Registered THEN getParent(e)
    ELSE nearestRegistered(getParent(e))

\* C29: open(E) on a live element of a registered kind throws nothing and
\* returns a node that E's slot holds and that is a child of the editor of
\* E's nearest ancestor of a registered kind, or parentless without one.
C29_OpenSucceeds ==
    [][(/\ last'.op = "open" /\ attached' = attached
        /\ last'.element \in attached /\ last'.element \in Registered)
        => /\ last'.err = ""
           /\ last'.ret # 0
           /\ slot'[last'.element] = last'.ret
           /\ LET ancestor == nearestRegistered(last'.element)
              IN IF ancestor = 0
                 THEN node'[last'.ret].parentEditor = 0
                 ELSE /\ slot'[ancestor] # 0
                      /\ node'[last'.ret].parentEditor = slot'[ancestor]
                      /\ \E i \in 1..Len(Children(node', slot'[ancestor])) :
                             Children(node', slot'[ancestor])[i] = last'.ret]_vars

(***************************************************************************)
(* Properties of the hit test                                              *)
(***************************************************************************)
RECURSIVE ProbeOrder(_)
RECURSIVE ProbeOrderOf(_, _)
\* topmost first: the children's subtrees from the last child to the first,
\* then the node itself
ProbeOrder(n) == ProbeOrderOf(Children(node, n), Len(Children(node, n))) \o <<n>>

ProbeOrderOf(children, i) ==
    IF i = 0 THEN <<>>
    ELSE ProbeOrder(children[i]) \o ProbeOrderOf(children, i - 1)

\* the acceptor (if one is given) accepts the node, the node's own bounding
\* box contains the location and the node's part lookup yields a part
Qualifies(n) ==
    /\ view.acceptor.given => (node[n].element \in view.acceptor.accepts)
    /\ bitAnd(node[n].flags, Selected) # 0 \/ bitAnd(node[n].flags, Highlighted) # 0
    /\ LET box == GeometryBBox[node[n].element]
       IN /\ box.x + view.transform - 1 <= view.location
          /\ view.location <= box.x + view.transform + box.w + 1
          /\ getPartInfoAtSelf(Now, n, view.location, view.transform) # 0

\* the first node of a sequence that qualifies, 0 if none does
FirstQualifying(order) ==
    IF \E i \in 1..Len(order) : Qualifies(order[i])
    THEN order[CHOOSE i \in 1..Len(order) :
                   Qualifies(order[i]) /\ \A j \in 1..(i - 1) : ~Qualifies(order[j])]
    ELSE 0

\* C8: the hit test returns the part of the topmost node that qualifies
\* (children from last to first and before their parent), no part if none
\* qualifies; of two qualifying siblings the earlier one is never the hit.
C8_HitIsTopmost ==
    last.op = "hitTest" =>
        /\ last.ret = FirstQualifying(ProbeOrder(slot[last.element]))
        /\ \A n \in EditorSubtree(node, {slot[last.element]}) :
               \A i, j \in 1..Len(Children(node, n)) :
                   (i < j /\ Qualifies(Children(node, n)[i]) /\ Qualifies(Children(node, n)[j]))
                   => last.ret # Children(node, n)[i]

\* two sibling editors both qualify, with an acceptor given, and the hit is
\* the later one
C8_Witness ==
    /\ last.op = "hitTest" /\ view.acceptor.given
    /\ \E n \in EditorSubtree(node, {slot[last.element]}) :
           \E i, j \in 1..Len(Children(node, n)) :
               /\ i < j
               /\ Qualifies(Children(node, n)[i])
               /\ Qualifies(Children(node, n)[j])
               /\ last.ret = Children(node, n)[j]

\* the nodes the acceptor was called on in the last call, in order
Consulted == [k \in 1..Len(last.events) |-> last.events[k][2]]

\* C26: the acceptor is called on a node only after every child of the node
\* was probed without a hit; a node the acceptor does not return true for is
\* never the hit; a rejection neither hides a qualifying node below the
\* rejected one nor ends the probing: a hit test with an acceptor that finds
\* nothing has asked about every node, children from last to first and
\* before their parent.
C26_AcceptorAfterChildren ==
    (last.op = "hitTest" /\ view.acceptor.given) =>
        /\ \A k \in 1..Len(Consulted) :
               /\ \A i \in 1..Len(Children(node, Consulted[k])) :
                      FirstQualifying(ProbeOrder(Children(node, Consulted[k])[i])) = 0
               /\ \A j \in 1..Len(Consulted) : Consulted[j] = Consulted[k] => j = k
        /\ last.ret # 0 => node[last.ret].element \in view.acceptor.accepts
        /\ (\E n \in EditorSubtree(node, {slot[last.element]}) : Qualifies(n)) => last.ret # 0
        /\ last.ret = 0 => Consulted = ProbeOrder(slot[last.element])

\* after the acceptor rejected a node that had a part at the location, the
\* probing went on and hit an earlier sibling or an ancestor
C26_Witness ==
    /\ last.op = "hitTest" /\ view.acceptor.given /\ last.ret # 0
    /\ Len(Consulted) > 1
    /\ last.ret = Consulted[Len(Consulted)]
    /\ \E k \in 1..(Len(Consulted) - 1) :
           /\ node[Consulted[k]].element \notin view.acceptor.accepts
           /\ bitAnd(node[Consulted[k]].flags, Selected) # 0
           /\ getPartInfoAtSelf(Now, Consulted[k], view.location, view.transform) # 0

(***************************************************************************)
(* Properties of the part selection                                        *)
(***************************************************************************)
\* the ids of a selection, as a set (none for no selection)
IdSet(selection) == {selection.items[i] : i \in 1..Len(selection.items)}

\* the node the last call was made on has the Selected flag
LastOnSelected ==
    /\ last.op = "updatePartSelection"
    /\ slot[last.element] # 0
    /\ bitAnd(node[slot[last.element]].flags, Selected) # 0

\* C9: on a Selected node, updatePartSelection(true, ids) called twice with
\* the same ids (a list, the empty list or absent) restores the original
\* selection as a set.
C9_ToggleTwiceRestores ==
    [][(/\ LastOnSelected /\ last.toggle
        /\ last'.op = "updatePartSelection" /\ last'.toggle
        /\ last'.element = last.element /\ last'.selection = last.selection)
        => IdSet(node'[slot[last.element]].partSelection) = IdSet(last.before)]_vars

\* what the selection becomes according to C10
C10_Expected(before, toggle, ids) ==
    IF ~toggle \/ before.isNull
    THEN IF ids.isNull \/ Len(ids.items) = 0 THEN NullArray ELSE ids
    ELSE IF ids.isNull \/ Len(ids.items) = 0 THEN before
    ELSE LET merged == SelectSeq(before.items, LAMBDA x : x \notin IdSet(ids))
                       \o SelectSeq(ids.items, LAMBDA x : x \notin IdSet(before))
         IN IF merged = <<>> THEN NullArray ELSE Array(merged)

\* C10: on a Selected node the selection becomes: in overwrite mode or with
\* no current selection a copy of ids (none for empty or absent ids); in
\* toggle mode the current ids not in ids followed by the ids not selected
\* (none if that is empty; empty or absent ids leave the selection as it is).
C10_UpdateComputes ==
    LastOnSelected =>
        LET expected == C10_Expected(last.before, last.toggle, last.selection)
            now == node[slot[last.element]].partSelection
        IN \/ now = expected
           \/ now = last.before /\ equals(expected, last.before)

\* C17: a node's part selection is null, or non-empty with no two entries
\* equal under the node's comparison of part ids.
C17_SelectionWellFormed ==
    \A n \in Slotted :
        LET selection == node[n].partSelection
        IN selection.isNull
           \/ /\ Len(selection.items) > 0
              /\ \A i, j \in 1..Len(selection.items) :
                     partIdAreEqual(selection.items[i], selection.items[j]) => i = j

\* two selections hold the same ids the same number of times
SameIds(left, right) ==
    /\ left.isNull = right.isNull
    /\ \A id \in PartIds :
           Cardinality({i \in 1..Len(left.items) : left.items[i] = id})
           = Cardinality({i \in 1..Len(right.items) : right.items[i] = id})

\* C19: updatePartSelection replaces the selection, with one invalidation
\* request before and one after the replacement, only on a Selected node
\* whose computed selection differs from the current one whatever the order;
\* otherwise the selection stays and no invalidation is requested.
C19_ReplacesOnlyOnChange ==
    [][(last'.op = "updatePartSelection")
        => LET this == slot[last'.element]
               current == node[this].partSelection
               computed == newSelection(current, last'.toggle, last'.selection)
           IN IF bitAnd(node[this].flags, Selected) # 0 /\ ~SameIds(computed, current)
              THEN /\ node'[this].partSelection = computed
                   /\ Len(last'.events) = 2
                   /\ Len(Invalidations(last'.events)) = 2
                   /\ last'.events[1][3].partSelection = current
                   /\ last'.events[2][3].partSelection = computed
              ELSE /\ node'[this].partSelection = current
                   /\ last'.events = <<>>]_vars

\* an overwrite of the selection [1, 2] with [2, 1] that requested nothing
C19_Witness ==
    /\ LastOnSelected /\ ~last.toggle
    /\ last.before = Array(<<1, 2>>) /\ last.selection = Array(<<2, 1>>)
    /\ last.events = <<>>
    /\ node[slot[last.element]].partSelection = Array(<<1, 2>>)

(***************************************************************************)
(* Properties of the flags and of the staged transform                     *)
(***************************************************************************)
\* the flag a flag call leaves alone: set by setFlag, clear by removeFlag
FlagCallIsNoop ==
    \/ last'.op = "setFlag" /\ bitAnd(node[slot[last'.element]].flags, last'.arg.flag) # 0
    \/ last'.op = "removeFlag" /\ bitAnd(node[slot[last'.element]].flags, last'.arg.flag) = 0

\* C11: setFlag of a set flag and removeFlag of a clear flag request no
\* invalidation and change nothing; every other flag call requests exactly
\* two, the first with the flags as before, the second with the flags changed.
C11_FlagInvalidations ==
    [][(last'.op \in {"setFlag", "removeFlag"})
        => LET this == slot[last'.element]
           IN IF FlagCallIsNoop
              THEN /\ last'.events = <<>>
                   /\ node' = node /\ slot' = slot
              ELSE /\ Len(last'.events) = 2
                   /\ Len(Invalidations(last'.events)) = 2
                   /\ last'.events[1][2] = this /\ last'.events[2][2] = this
                   /\ last'.events[1][3].flags = node[this].flags
                   /\ last'.events[2][3].flags = node'[this].flags
                   /\ node'[this].flags # node[this].flags
                   /\ node'[this].flags =
                          IF last'.op = "setFlag"
                          THEN bitOr(node[this].flags, last'.arg.flag)
                          ELSE node[this].flags - bitAnd(node[this].flags, last'.arg.flag)]_vars

\* a setFlag that found its flag set, after a removeFlag that cleared one
C11_Witness ==
    /\ last.op = "setFlag" /\ last.events = <<>>
    /\ bitAnd(node[slot[last.element]].flags, last.arg.flag) # 0
    /\ bitAnd(node[slot[last.element]].flags, Selected + Outline) # Selected + Outline

\* C12: applyTransform(target) directly after transform(T): for T other
\* than the identity the target's transform is called exactly once, with T;
\* for the identity it is not called; either way the node then has no staged
\* transform and no Outline flag.
C12_ApplyCommitsOnce ==
    [][(/\ last.op = "transform" /\ ~last.arg.transform.isNull
        /\ last'.op = "applyTransform" /\ last'.element = last.element)
        => LET this == slot[last'.element]
               applied == Applications(last'.events)
           IN /\ last'.err = ""
              /\ node'[this].transform = NullTransform
              /\ bitAnd(node'[this].flags, Outline) = 0
              /\ IF last.arg.transform.tx # 0
                 THEN /\ Len(applied) = 1
                      /\ applied[1][3].target = last'.arg.target
                      /\ applied[1][3].arg = last.arg.transform
                 ELSE applied = <<>>]_vars

\* a staged translation was applied to a clone of the editor's element
C12_Witness ==
    /\ last.op = "applyTransform" /\ last.err = "" /\ last.arg.target = 8
    /\ Len(Applications(last.events)) = 1
    /\ node[slot[last.element]].transform = NullTransform

\* C16: a node that has a staged transform has the Outline flag.
C16_StagedImpliesOutline ==
    \A n \in Slotted : ~node[n].transform.isNull => bitAnd(node[n].flags, Outline) # 0

(***************************************************************************)
(* Properties of visiting                                                  *)
(***************************************************************************)
RECURSIVE PreOrder(_)
RECURSIVE PreOrderOf(_, _)
\* a node, then its children's subtrees from the first child to the last
PreOrder(n) == <<n>> \o PreOrderOf(Children(node, n), 1)

PreOrderOf(children, i) ==
    IF i > Len(children) THEN <<>>
    ELSE PreOrder(children[i]) \o PreOrderOf(children, i + 1)

\* the nodes the visitor of the last call was called on, in order
Visited == [i \in 1..Len(last.events) |-> last.events[i][2]]

\* the places of a sequence of nodes the last call's visitor stops at
StopsIn(order) == {i \in 1..Len(order) : node[order[i]].element \in last.arg.stops}

\* C15: accept calls the visitor in pre-order, children first to last, up to
\* and including the first node the visitor returns false on, and then
\* returns false; without such a node it calls the visitor on every node of
\* the subtree exactly once and returns true, whatever else the visitor
\* returns.
C15_VisitPreOrderStops ==
    last.op = "accept" =>
        LET order == PreOrder(slot[last.element])
            stops == StopsIn(order)
        IN /\ \A i \in 1..Len(last.events) : last.events[i][1] = "visit"
           /\ IF stops = {}
              THEN /\ Visited = order
                   /\ last.result = "true"
                   /\ \A n \in EditorSubtree(node, {slot[last.element]}) :
                          Cardinality({i \in 1..Len(Visited) : Visited[i] = n}) = 1
              ELSE /\ Visited = SubSeq(order, 1, CHOOSE i \in stops : \A j \in stops : i <= j)
                   /\ last.result = "false"

\* a visit that stopped below the root with a later sibling and the rest of
\* an ancestor unvisited, the visitor returning a falsy non-Boolean elsewhere
C15_Witness ==
    /\ last.op = "accept" /\ last.element = 1 /\ last.result = "false"
    /\ last.arg.other = "zero"
    /\ Len(PreOrder(slot[1])) = 4
    /\ Len(last.events) = 3

\* C23: transform(T) with T equal to the staged transform changes nothing
\* and requests no invalidation; with T different and Outline clear it
\* requests two invalidations around the setting of Outline, stages T and
\* requests a third; with T different and Outline set it requests one
\* invalidation, stages T and requests a second.
C23_TransformInvalidations ==
    [][(last'.op = "transform")
        => LET this == slot[last'.element]
               staged == node[this].transform
               flags == node[this].flags
               events == last'.events
           IN IF last'.arg.transform = staged
              THEN events = <<>> /\ node'[this] = node[this]
              ELSE /\ Invalidations(events) = events
                   /\ node'[this].transform = last'.arg.transform
                   /\ node'[this].flags = bitOr(flags, Outline)
                   /\ IF bitAnd(flags, Outline) = 0
                      THEN /\ Len(events) = 3
                           /\ events[1][3].flags = flags
                           /\ events[1][3].transform = staged
                           /\ events[2][3].flags = bitOr(flags, Outline)
                           /\ events[2][3].transform = staged
                           /\ events[3][3].flags = bitOr(flags, Outline)
                           /\ events[3][3].transform = last'.arg.transform
                      ELSE /\ Len(events) = 2
                           /\ events[1][3].flags = flags
                           /\ events[1][3].transform = staged
                           /\ events[2][3].flags = flags
                           /\ events[2][3].transform = last'.arg.transform]_vars

\* a second change of the staged transform within a gesture
C23_Witness ==
    /\ last.op = "transform" /\ Len(last.events) = 2
    /\ ~last.events[1][3].transform.isNull
    /\ ~last.arg.transform.isNull
    /\ last.events[1][3].transform # last.arg.transform

\* C24: after resetTransform the node has no staged transform and no
\* Outline flag, its other flags and its part selection are as before, and
\* an invalidation was requested while the transform was still staged
\* exactly when a transform other than the identity was staged.
C24_ResetClears ==
    [][(last'.op = "resetTransform")
        => LET this == slot[last'.element]
               staged == node[this].transform
               flags == node[this].flags
               events == last'.events
               early == IF ~staged.isNull /\ staged.tx # 0 THEN 1 ELSE 0
               late == IF bitAnd(flags, Outline) # 0 THEN 2 ELSE 0
           IN /\ node'[this].transform = NullTransform
              /\ bitAnd(node'[this].flags, Outline) = 0
              /\ node'[this].flags = flags - bitAnd(flags, Outline)
              /\ node'[this].partSelection = node[this].partSelection
              /\ Invalidations(events) = events
              /\ Len(events) = early + late
              /\ \A k \in 1..Len(events) :
                     ~events[k][3].transform.isNull
                     <=> (k = 1 /\ early = 1 /\ events[k][3].transform = staged)]_vars

\* a reset of a staged translation on a node that is Selected and has a
\* part selection
C24_Witness ==
    /\ last.op = "resetTransform" /\ Len(last.events) = 3
    /\ ~last.events[1][3].transform.isNull
    /\ bitAnd(node[slot[last.element]].flags, Selected) # 0
    /\ node[slot[last.element]].partSelection = Array(<<1, 2>>)
    /\ node[slot[last.element]].transform = NullTransform

\* C30: removeFlag leaves the part selection as it is; while Selected is
\* clear no updatePartSelection changes the selection or requests an
\* invalidation; isPartSelected answers from the selection the node holds,
\* whatever its flags.
C30_SelectionOutlivesFlag ==
    [][LET this == slot[last'.element]
       IN /\ (last'.op = "removeFlag")
             => node'[this].partSelection = node[this].partSelection
          /\ (last'.op = "updatePartSelection" /\ bitAnd(node[this].flags, Selected) = 0)
             => /\ node'[this].partSelection = node[this].partSelection
                /\ last'.events = <<>>
          /\ (last'.op = "isPartSelected")
             => /\ last'.result = IF last'.arg.partId \in IdSet(node[this].partSelection)
                                  THEN "true" ELSE "false"
                /\ node'[this] = node[this]]_vars

\* an overwrite with no ids on a node that lost Selected and kept [1, 2]
C30_Witness ==
    /\ last.op = "updatePartSelection" /\ ~last.toggle /\ last.selection = NullArray
    /\ bitAnd(node[slot[last.element]].flags, Selected) = 0
    /\ node[slot[last.element]].partSelection = Array(<<1, 2>>)
    /\ last.before = Array(<<1, 2>>)

(***************************************************************************)
(* Properties of the annotations                                           *)
(***************************************************************************)
\* the center of the last call's annotation as the view transform maps it
MappedCenter ==
    IF view.transform.isNull THEN view.center
    ELSE <<view.center[1] + view.transform.tx, view.center[2] + view.transform.tx>>

\* the whole pixel a fixed-point coordinate lies in: the largest multiple of
\* Unit that is not above it
PixelOf(x) == CHOOSE p \in {k * Unit : k \in -(MaxCenter + 4)..(MaxCenter + 4)} :
                  p <= x /\ x < p + Unit

\* C28: the annotation box is a square of side size + 2 (8 for the regular
\* size, 6 for the small one) whose center is the middle of the pixel the
\* mapped center lies in; no paint call and no invalidation is made.
C28_AnnotationBBox ==
    (last.op = "getAnnotationBBox") =>
        LET rect == last.arg.rect
            side == IF view.small THEN 6 ELSE 8
        IN /\ rect.width = side * Unit /\ rect.height = side * Unit
           /\ 2 * rect.x + rect.width = 2 * PixelOf(MappedCenter[1]) + Unit
           /\ 2 * rect.y + rect.height = 2 * PixelOf(MappedCenter[2]) + Unit
           /\ last.events = <<>>

\* the box of a regular annotation whose mapped center has a negative,
\* fractional coordinate
C28_Witness ==
    /\ last.op = "getAnnotationBBox" /\ ~view.small /\ ~view.transform.isNull
    /\ MappedCenter[1] < 0 /\ MappedCenter[1] % Unit # 0
    /\ last.arg.rect.width = 8 * Unit

====
